---- MODULE Spec2Model ----
(***************************************************************************)
(* Model of backend/server.js: the admission REST backend (signup, login,  *)
(* bio submission, course discovery, course application) over a Mongoose   *)
(* User / Course store, with JWT bearer authentication.                    *)
(*                                                                         *)
(* Every request is a task that runs between its awaits.  A step of the    *)
(* model is one database operation of one request together with the local  *)
(* code that follows it up to the next await (or the response).  The       *)
(* synchronous code before the first await (the auth middleware, the field *)
(* checks) is part of the request's first step.                            *)
(***************************************************************************)
EXTENDS Integers, Sequences, FiniteSets, TLC

\* Number of client events (requests sent, clock ticks) in a behaviour.
MaxOps == 3

\* The requests that can be in flight at once.
Slots == {1, 2}

----------------------------------------------------------------------------
(* JavaScript optional values: undefined is None, a supplied value v is    *)
(* Some(v).                                                                *)
None == <<>>
Some(v) == <<v>>
IsSome(x) == Len(x) = 1
Val(x) == x[1]

----------------------------------------------------------------------------
(* bcrypt.  A password is the sequence of its bytes.  bcrypt uses only the *)
(* first 72 bytes of its input.  The salt is not modelled: compare         *)
(* re-derives the digest with the salt stored in the hash.                 *)
BcryptMaxBytes == 72

Take(s, n) == SubSeq(s, 1, IF Len(s) < n THEN Len(s) ELSE n)

BcryptHash(data) == [bcrypt |-> Take(data, BcryptMaxBytes)]

BcryptCompare(data, hash) == BcryptHash(data) = hash

PwPrefix == [i \in 1..BcryptMaxBytes |-> "p"]
PwShort == <<"p", "w">>
PwLongA == PwPrefix \o <<"a">>
PwLongB == PwPrefix \o <<"b">>
Passwords == {PwShort, PwLongA, PwLongB}

Emails == {"a@x.com", "b@x.com"}
Usernames == {"alice", "bob"}
Phones == {Some("555"), None}

----------------------------------------------------------------------------
(* jsonwebtoken.  A token is its payload and the key that signed it; the   *)
(* clock counts hours.                                                     *)
JwtSecret == "JWT_SECRET"
ExpiresIn == 1

EmptyTok == [id |-> 0, exp |-> 0, sig |-> ""]

JwtSign(id, clock) == [id |-> id, exp |-> clock + ExpiresIn, sig |-> JwtSecret]

JwtVerifyNoExpiry(tok, clock) == tok.sig = JwtSecret

JwtVerify(tok, clock) == tok.sig = JwtSecret /\ clock < tok.exp

----------------------------------------------------------------------------
VARIABLES
    users,      \* the users collection: users[i] is the document with _id i
    reqs,       \* reqs[r]: the request in slot r, its position and locals
    tokens,     \* the tokens the server has handed out
    now,        \* the clock, in hours
    nops,       \* client events so far
    uploads,    \* the files in the uploads directory
    plain,      \* history: plain[i] is the password user i signed up with
    reviewed    \* history: the users with a completed POST /apply/:courseId

vars == <<users, reqs, tokens, now, nops, uploads, plain, reviewed>>

Ids == 1..Len(users)

EmptyBio == [name |-> None, age |-> None, specialization |-> None,
             marks10th |-> None, marks12th |-> None, certificates |-> <<>>]

\* new User({ email, password, username, phonenumber }) with the schema defaults.
\* (The createdAt / updatedAt timestamps are not modelled.)
NewUser(email, hashed, username, phonenumber) ==
    [email |-> email, password |-> hashed, username |-> username,
     phonenumber |-> phonenumber, bioData |-> EmptyBio,
     coursesApplied |-> <<>>, applicationStatus |-> "Pending"]

(* A request: its route, where it stands (pc), what the client sent (req,  *)
(* kept until the second step), the handler's locals (loc), req.user.id    *)
(* (uid), and once answered the status and the body of the response (out). *)
Idle == [route |-> "none", pc |-> "idle", status |-> 0, uid |-> 0,
         req |-> None, loc |-> None, out |-> None]

Free(r) == reqs[r].pc \in {"idle", "done"}

\* The slots are interchangeable: a request takes the first free one.
Accepts(r) == Free(r) /\ \A q \in Slots : Free(q) => r <= q

Respond(route, status, uid, req, out) ==
    [route |-> route, pc |-> "done", status |-> status, uid |-> uid,
     req |-> req, loc |-> None, out |-> out]

Pending(route, pc, uid, req, loc) ==
    [route |-> route, pc |-> pc, status |-> 0, uid |-> uid,
     req |-> req, loc |-> loc, out |-> None]

Init ==
    /\ users = <<>>
    /\ reqs = [r \in Slots |-> Idle]
    /\ tokens = {}
    /\ now = 0
    /\ nops = 0
    /\ uploads = {}
    /\ plain = <<>>
    /\ reviewed = {}

----------------------------------------------------------------------------
(* The unique indexes of UserSchema on email and username: an insert that  *)
(* repeats either is rejected by the store.                                *)
UniqueIndexOff(email, username) == TRUE

UniqueIndexAllows(email, username) ==
    \A i \in Ids : users[i].email # email /\ users[i].username # username

\* User.findOne({ $or: [{ email }, { username }] })
FindOneEmailOrUsername(email, username) ==
    {i \in Ids : users[i].email = email \/ users[i].username = username}

\* User.findOne({ email })
FindOneEmail(email) == {i \in Ids : users[i].email = email}

----------------------------------------------------------------------------
(* POST /signup *)
SignupFindOne(r, email, password, username, phonenumber) ==
    /\ Accepts(r)
    /\ nops < MaxOps
    /\ nops' = nops + 1
    /\ LET body == Some([email |-> email, password |-> password,
                          username |-> username, phonenumber |-> phonenumber])
       IN reqs' = [reqs EXCEPT ![r] =
          IF FindOneEmailOrUsername(email, username) # {}
          THEN Respond("signup", 409, 0, body, None)
          ELSE IF ~IsSome(password)
          THEN Respond("signup", 500, 0, body, None)   \* bcrypt.hash throws
          ELSE Pending("signup", "save", 0, body,
                       [email |-> email, password |-> BcryptHash(Val(password)),
                        username |-> username, phonenumber |-> phonenumber,
                        typed |-> Val(password)])]
    /\ UNCHANGED <<users, tokens, now, plain, uploads, reviewed>>

SignupSave(r) ==
    /\ reqs[r].route = "signup"
    /\ reqs[r].pc = "save"
    /\ LET l == reqs[r].loc
           id == Len(users) + 1
           ok == IsSome(l.phonenumber) /\ UniqueIndexAllows(l.email, l.username)
           tok == JwtSign(id, now)
       IN IF ok
          THEN /\ users' = Append(users, NewUser(l.email, l.password, l.username,
                                                 Val(l.phonenumber)))
               /\ plain' = Append(plain, l.typed)
               /\ tokens' = tokens \cup {tok}
               /\ reqs' = [reqs EXCEPT ![r] =
                              Respond("signup", 201, id, None, Some(tok))]
          ELSE /\ reqs' = [reqs EXCEPT ![r] =
                              Respond("signup", 500, 0, None, None)]
               /\ UNCHANGED <<users, plain, tokens>>
    /\ UNCHANGED <<now, nops, uploads, reviewed>>

(* POST /login *)
Login(r, email, password) ==
    /\ Accepts(r)
    /\ nops < MaxOps
    /\ nops' = nops + 1
    /\ LET found == FindOneEmail(email)
           body == Some([email |-> email, password |-> password])
       IN IF found = {}
          THEN /\ reqs' = [reqs EXCEPT ![r] =
                              Respond("login", 400, 0, body, None)]
               /\ UNCHANGED tokens
          ELSE LET id == CHOOSE i \in found : TRUE
                   tok == JwtSign(id, now)
               IN IF ~IsSome(password)
                  THEN /\ reqs' = [reqs EXCEPT ![r] =
                                      Respond("login", 500, 0, body, None)]
                       /\ UNCHANGED tokens
                  ELSE IF ~BcryptCompare(Val(password), users[id].password)
                  THEN /\ reqs' = [reqs EXCEPT ![r] =
                                      Respond("login", 400, 0, body, None)]
                       /\ UNCHANGED tokens
                  ELSE /\ reqs' = [reqs EXCEPT ![r] =
                                      Respond("login", 200, id, body, Some(tok))]
                       /\ tokens' = tokens \cup {tok}
    /\ UNCHANGED <<users, now, plain, uploads, reviewed>>

----------------------------------------------------------------------------
(* The auth middleware.  The Authorization header is None when absent;     *)
(* otherwise it is its scheme (the text before the first space) and rest,  *)
(* the pieces that follow, one per space: authHeader.split(" ") is         *)
(* <<scheme>> \o rest.                                                     *)
Header(scheme, rest) == Some([scheme |-> scheme, rest |-> rest])

\* authHeader && authHeader.startsWith("Bearer ")
StartsWithBearer(h) ==
    IsSome(h) /\ Val(h).scheme = "Bearer" /\ Len(Val(h).rest) >= 1

\* authHeader.split(" ")[1]
HeaderToken(h) == Val(h).rest[1]

\* 403, 401, or 0 when next() is called
AuthStatus(h, clock) ==
    IF ~StartsWithBearer(h) THEN 403
    ELSE IF ~JwtVerify(HeaderToken(h), clock) THEN 401
    ELSE 0

\* req.user.id
AuthId(h) == HeaderToken(h).id

\* The headers a client can send: it holds the tokens the server handed
\* out, and can sign tokens of its own with a key that is not the secret.
Forged == {[id |-> i, exp |-> now + ExpiresIn, sig |-> "other"] : i \in Ids}

Headers ==
    {None, Header("Bearer", <<>>)}
        \cup {Header("Bearer", <<t>>) : t \in tokens \cup Forged \cup {EmptyTok}}
        \cup {Header("bearer", <<t>>) : t \in tokens}
        \cup {Header("Bearer", <<EmptyTok, t>>) : t \in tokens}

----------------------------------------------------------------------------
(* ObjectId.  An identifier string is the sequence of its characters; a    *)
(* string casts to an ObjectId when it is ObjectIdHexLen hex digits (24 in *)
(* the driver), in either case; the ObjectId prints in lower case.         *)
ObjectIdHexLen == 2

LowerDigits == {"0", "1", "2", "3", "a", "b", "c", "f"}
UpperDigits == {"A", "B", "C", "F"}

ToLower(c) ==
    CASE c = "A" -> "a" [] c = "B" -> "b" [] c = "C" -> "c" [] c = "F" -> "f"
      [] OTHER -> c

IsObjectIdStringLowerOnly(s) ==
    Len(s) = ObjectIdHexLen /\ \A i \in 1..Len(s) : s[i] \in LowerDigits

IsObjectIdString(s) ==
    /\ Len(s) = ObjectIdHexLen
    /\ \A i \in 1..Len(s) : s[i] \in LowerDigits \cup UpperDigits

CastObjectId(s) == [oid |-> [i \in 1..Len(s) |-> ToLower(s[i])]]

ObjectIdToString(o) == o.oid

\* MongooseArray.includes(str): str == element, the element printed
ArrayIncludes(arr, s) ==
    \E i \in 1..Len(arr) : s = ObjectIdToString(arr[i])

CourseIdInputs == {<<"a", "1">>, <<"A", "1">>, <<"f", "f">>, <<"z", "z">>}

----------------------------------------------------------------------------
(* The course catalog, seeded outside the program and never changed.       *)
Specializations == {"Accounts", "Biology", "Mathematics", "Computer Science"}

Courses ==
    {[id |-> CastObjectId(<<"a", "1">>), name |-> "Botany",
      specializationRequired |-> "Biology", minimumMarks |-> 70],
     [id |-> CastObjectId(<<"b", "2">>), name |-> "Genetics",
      specializationRequired |-> "Biology", minimumMarks |-> 90],
     [id |-> CastObjectId(<<"c", "3">>), name |-> "Algebra",
      specializationRequired |-> "Mathematics", minimumMarks |-> 80]}

\* Course.find({ specializationRequired, minimumMarks: { $lte: marks } })
CourseFindStrict(specialization, marks) ==
    {c \in Courses : /\ c.specializationRequired = specialization
                     /\ c.minimumMarks < marks}

CourseFind(specialization, marks) ==
    {c \in Courses : /\ c.specializationRequired = specialization
                     /\ c.minimumMarks <= marks}

\* populate("coursesApplied"): each reference replaced by its Course, the
\* references to no Course dropped
RECURSIVE Populate(_)
Populate(refs) ==
    IF refs = <<>> THEN <<>>
    ELSE LET hit == {c \in Courses : c.id = Head(refs)}
         IN (IF hit = {} THEN <<>> ELSE <<CHOOSE c \in hit : TRUE>>)
                \o Populate(Tail(refs))

----------------------------------------------------------------------------
(* multer: each uploaded file is stored under uploads/ as                  *)
(* `${Date.now()}-${originalname.replace(/\s+/g, "-")}`.                   *)
IsSpace(c) == c = " "

RECURSIVE Sanitize(_)
Sanitize(s) ==
    IF s = <<>> THEN <<>>
    ELSE IF IsSpace(Head(s))
    THEN IF Len(s) > 1 /\ IsSpace(s[2]) THEN Sanitize(Tail(s))
         ELSE <<"-">> \o Sanitize(Tail(s))
    ELSE <<Head(s)>> \o Sanitize(Tail(s))

Filename(original, clock) == [ts |-> clock, name |-> Sanitize(original)]

StoredNames(files, clock) == [i \in 1..Len(files) |-> Filename(files[i], clock)]

----------------------------------------------------------------------------
(* POST /bio *)
MissingBioFieldsLax(name, age, specialization) ==
    ~IsSome(name) \/ ~IsSome(age)

\* !req.body.name || !req.body.age || !req.body.specialization
MissingBioFields(name, age, specialization) ==
    ~IsSome(name) \/ ~IsSome(age) \/ ~IsSome(specialization)

\* BioDataSchema validation at save
ValidBio(b) ==
    /\ IsSome(b.name) /\ IsSome(b.age) /\ IsSome(b.marks10th) /\ IsSome(b.marks12th)
    /\ IsSome(b.specialization) /\ Val(b.specialization) \in Specializations

BioLoad(r, h, name, age, specialization, marks10th, marks12th, files) ==
    /\ Accepts(r)
    /\ nops < MaxOps
    /\ nops' = nops + 1
    /\ LET a == AuthStatus(h, now)
           body == Some([hdr |-> h, name |-> name, age |-> age,
                         specialization |-> specialization])
       IN IF a # 0
          THEN /\ reqs' = [reqs EXCEPT ![r] = Respond("bio", a, 0, body, None)]
               /\ UNCHANGED uploads
          ELSE /\ uploads' = uploads \cup {StoredNames(files, now)[i] :
                                              i \in 1..Len(files)}
               /\ reqs' = [reqs EXCEPT ![r] =
                     IF MissingBioFields(name, age, specialization)
                     THEN Respond("bio", 400, AuthId(h), body, None)
                     ELSE IF AuthId(h) \notin Ids
                     THEN Respond("bio", 404, AuthId(h), body, None)
                     ELSE Pending("bio", "save", AuthId(h), body,
                            [name |-> name, age |-> age,
                             specialization |-> specialization,
                             marks10th |-> marks10th, marks12th |-> marks12th,
                             certificates |-> StoredNames(files, now)])]
    /\ UNCHANGED <<users, tokens, now, plain, reviewed>>

BioSave(r) ==
    /\ reqs[r].route = "bio"
    /\ reqs[r].pc = "save"
    /\ LET b == reqs[r].loc
           id == reqs[r].uid
       IN IF ValidBio(b)
          THEN /\ users' = [users EXCEPT ![id].bioData = b]
               /\ reqs' = [reqs EXCEPT ![r] = Respond("bio", 200, id, None, Some(b))]
          ELSE /\ reqs' = [reqs EXCEPT ![r] = Respond("bio", 500, id, None, None)]
               /\ UNCHANGED users
    /\ UNCHANGED <<tokens, now, nops, plain, uploads, reviewed>>

----------------------------------------------------------------------------
(* GET /courses and GET /user *)
DiscoveryRoutes == {"courses", "user"}

DiscoverLoad(r, route, h) ==
    /\ Accepts(r)
    /\ nops < MaxOps
    /\ nops' = nops + 1
    /\ LET a == AuthStatus(h, now)
           id == AuthId(h)
           body == Some([hdr |-> h])
       IN reqs' = [reqs EXCEPT ![r] =
             IF a # 0 THEN Respond(route, a, 0, body, None)
             ELSE IF id \notin Ids \/ ~IsSome(users[id].bioData.specialization)
             THEN Respond(route, 400, id, body, None)
             ELSE Pending(route, "find", id, body,
                    [bioData |-> users[id].bioData,
                     applied |-> IF route = "courses"
                                 THEN Populate(users[id].coursesApplied)
                                 ELSE users[id].coursesApplied])]
    /\ UNCHANGED <<users, tokens, now, plain, uploads, reviewed>>

DiscoverFind(r) ==
    /\ reqs[r].route \in DiscoveryRoutes
    /\ reqs[r].pc = "find"
    /\ LET l == reqs[r].loc
       IN reqs' = [reqs EXCEPT ![r] =
             Respond(reqs[r].route, 200, reqs[r].uid, None,
                     Some([availableCourses |->
                               CourseFind(Val(l.bioData.specialization),
                                          Val(l.bioData.marks12th)),
                           appliedCourses |-> l.applied,
                           bioData |-> l.bioData]))]
    /\ UNCHANGED <<users, tokens, now, nops, plain, uploads, reviewed>>

----------------------------------------------------------------------------
(* POST /apply/:courseId *)
ApplyLoad(r, h, courseId) ==
    /\ Accepts(r)
    /\ nops < MaxOps
    /\ nops' = nops + 1
    /\ LET a == AuthStatus(h, now)
           id == AuthId(h)
           body == Some([hdr |-> h, courseId |-> Some(courseId)])
       IN reqs' = [reqs EXCEPT ![r] =
             IF a # 0 THEN Respond("apply", a, 0, body, None)
             ELSE IF id \notin Ids THEN Respond("apply", 404, id, body, None)
             ELSE IF ~IsObjectIdString(courseId)
             THEN Respond("apply", 500, id, body, None)   \* push: CastError
             ELSE Pending("apply", "save", id, body,
                    [pushed |-> CastObjectId(courseId),
                     coursesApplied |-> Append(users[id].coursesApplied,
                                               CastObjectId(courseId)),
                     applicationStatus |-> "Under Review"])]
    /\ UNCHANGED <<users, tokens, now, plain, uploads, reviewed>>

\* user.save() of a loaded document sends what was modified: the pushed
\* element as an atomic $push, an assigned path as a $set.
SavePushWhole(stored, l) == l.coursesApplied

SavePush(stored, l) == Append(stored, l.pushed)

ApplySave(r) ==
    /\ reqs[r].route = "apply"
    /\ reqs[r].pc = "save"
    /\ LET l == reqs[r].loc
           id == reqs[r].uid
       IN /\ users' = [users EXCEPT
                 ![id].coursesApplied = SavePush(@, l),
                 ![id].applicationStatus = l.applicationStatus]
          /\ reviewed' = reviewed \cup {id}
          /\ reqs' = [reqs EXCEPT ![r] =
                Respond("apply", 200, id, None,
                        Some([coursesApplied |-> l.coursesApplied,
                              applicationStatus |-> l.applicationStatus]))]
    /\ UNCHANGED <<tokens, now, nops, plain, uploads>>

(* POST /apply-course *)
ApplyCourseLoad(r, h, courseId) ==
    /\ Accepts(r)
    /\ nops < MaxOps
    /\ nops' = nops + 1
    /\ LET a == AuthStatus(h, now)
           id == AuthId(h)
           body == Some([hdr |-> h, courseId |-> courseId])
       IN reqs' = [reqs EXCEPT ![r] =
             IF a # 0 THEN Respond("apply-course", a, 0, body, None)
             ELSE IF id \notin Ids THEN Respond("apply-course", 404, id, body, None)
             ELSE IF ~IsSome(courseId)
             THEN Respond("apply-course", 400, id, body, None)
             ELSE IF ArrayIncludes(users[id].coursesApplied, Val(courseId))
             THEN Respond("apply-course", 400, id, body, None)
             ELSE IF ~IsObjectIdString(Val(courseId))
             THEN Respond("apply-course", 500, id, body, None) \* push: CastError
             ELSE Pending("apply-course", "save", id, body,
                    [pushed |-> CastObjectId(Val(courseId)),
                     coursesApplied |-> Append(users[id].coursesApplied,
                                               CastObjectId(Val(courseId)))])]
    /\ UNCHANGED <<users, tokens, now, plain, uploads, reviewed>>

ApplyCourseSaveSetsStatus(r) ==
    /\ reqs[r].route = "apply-course"
    /\ reqs[r].pc = "save"
    /\ LET l == reqs[r].loc
           id == reqs[r].uid
       IN /\ users' = [users EXCEPT
                 ![id].coursesApplied = SavePush(@, l),
                 ![id].applicationStatus = "Under Review"]
          /\ reqs' = [reqs EXCEPT ![r] =
                Respond("apply-course", 200, id, None, None)]
    /\ UNCHANGED <<tokens, now, nops, plain, uploads, reviewed>>

ApplyCourseSave(r) ==
    /\ reqs[r].route = "apply-course"
    /\ reqs[r].pc = "save"
    /\ LET l == reqs[r].loc
           id == reqs[r].uid
       IN /\ users' = [users EXCEPT ![id].coursesApplied = SavePush(@, l)]
          /\ reqs' = [reqs EXCEPT ![r] = Respond("apply-course", 200, id, None, None)]
    /\ UNCHANGED <<tokens, now, nops, plain, uploads, reviewed>>

----------------------------------------------------------------------------
(* The clock advances. *)
Tick ==
    /\ nops < MaxOps
    /\ nops' = nops + 1
    /\ now' = now + 1
    /\ UNCHANGED <<users, reqs, tokens, plain, uploads, reviewed>>

(* The store outlives the process: the server also starts on a store that *)
(* an earlier run left, here the one after alice signed up at hour 0.      *)
InitSeeded ==
    /\ users = <<NewUser("a@x.com", BcryptHash(PwShort), "alice", "555")>>
    /\ reqs = [r \in Slots |-> Idle]
    /\ tokens = {JwtSign(1, 0)}
    /\ now = 0
    /\ nops = 0
    /\ uploads = {}
    /\ plain = <<PwShort>>
    /\ reviewed = {}

(* The request bodies the clients send. *)
Accounts == {<<"a@x.com", "alice">>, <<"b@x.com", "bob">>}

OptPasswords == {Some(x) : x \in Passwords} \cup {None}

BioBody(name, age, specialization, marks12th, files) ==
    [name |-> name, age |-> age, specialization |-> specialization,
     marks10th |-> Some(75), marks12th |-> marks12th, files |-> files]

OneFile == << <<"m", " ", " ", "c">> >>

PartialBody == BioBody(Some("Ann"), Some(21), None, Some(80), OneFile)

BioBodies ==
    {BioBody(Some("Ann"), Some(21), Some(sp), Some(m), <<>>) :
        sp \in {"Biology", "Mathematics"}, m \in {60, 80}}
      \cup {BioBody(Some("Ann"), Some(21), Some("Biology"), Some(80), OneFile),
            BioBody(Some("Ann"), Some(21), Some("Physics"), Some(80), <<>>),
            BioBody(None, Some(21), Some("Biology"), Some(80), OneFile),
            BioBody(Some("Ann"), None, Some("Biology"), Some(80), OneFile),
            PartialBody}

OptCourseIds == {Some(x) : x \in CourseIdInputs} \cup {None}

\* The middleware never reads the body: for a header it rejects, one body
\* stands for all.
BodiesFor(h, all, one) == IF AuthStatus(h, now) = 0 THEN all ELSE {one}

\* The headers of the clients that hold a token the server handed out, or
\* none.
TokenHeaders == {None} \cup {Header("Bearer", <<t>>) : t \in tokens}

Next ==
    \/ \E r \in Slots, acc \in Accounts :
          SignupFindOne(r, acc[1], Some(PwShort), acc[2], Some("555"))
    \/ \E r \in Slots : SignupSave(r)
    \/ \E r \in Slots, e \in Emails : Login(r, e, Some(PwShort))
    \/ \E r \in Slots, h \in TokenHeaders :
          \E b \in BodiesFor(h, BioBodies, PartialBody) :
             BioLoad(r, h, b.name, b.age, b.specialization,
                     b.marks10th, b.marks12th, b.files)
    \/ \E r \in Slots : BioSave(r)
    \/ \E r \in Slots, route \in DiscoveryRoutes, h \in TokenHeaders :
          DiscoverLoad(r, route, h)
    \/ \E r \in Slots : DiscoverFind(r)
    \/ \E r \in Slots, h \in TokenHeaders :
          \E c \in BodiesFor(h, CourseIdInputs, <<"a", "1">>) :
             ApplyLoad(r, h, c)
    \/ \E r \in Slots : ApplySave(r)
    \/ \E r \in Slots, h \in TokenHeaders :
          \E c \in BodiesFor(h, OptCourseIds, Some(<<"a", "1">>)) :
             ApplyCourseLoad(r, h, c)
    \/ \E r \in Slots : ApplyCourseSave(r)
    \/ Tick

Spec == (Init \/ InitSeeded) /\ [][Next]_vars

(* Every header a client can send, on every protected route, each with a   *)
(* body that passes the handler's checks and one that does not.            *)
GoodBody == BioBody(Some("Ann"), Some(21), Some("Biology"), Some(80), OneFile)

NextAuth ==
    \/ \E r \in Slots, acc \in Accounts :
          SignupFindOne(r, acc[1], Some(PwShort), acc[2], Some("555"))
    \/ \E r \in Slots : SignupSave(r)
    \/ \E r \in Slots, e \in Emails : Login(r, e, Some(PwShort))
    \/ \E r \in Slots, h \in Headers, b \in {GoodBody, PartialBody} :
          BioLoad(r, h, b.name, b.age, b.specialization,
                  b.marks10th, b.marks12th, b.files)
    \/ \E r \in Slots : BioSave(r)
    \/ \E r \in Slots, route \in DiscoveryRoutes, h \in Headers :
          DiscoverLoad(r, route, h)
    \/ \E r \in Slots : DiscoverFind(r)
    \/ \E r \in Slots, h \in Headers, c \in {<<"a", "1">>, <<"z", "z">>} :
          ApplyLoad(r, h, c)
    \/ \E r \in Slots : ApplySave(r)
    \/ \E r \in Slots, h \in Headers, c \in {Some(<<"a", "1">>), None} :
          ApplyCourseLoad(r, h, c)
    \/ \E r \in Slots : ApplyCourseSave(r)
    \/ Tick

SpecAuth == (Init \/ InitSeeded) /\ [][NextAuth]_vars

(* The account routes alone, with every credential input. *)
NextAccounts ==
    \/ \E r \in Slots, e \in Emails, u \in Usernames,
          p \in OptPasswords, ph \in Phones :
          SignupFindOne(r, e, p, u, ph)
    \/ \E r \in Slots : SignupSave(r)
    \/ \E r \in Slots, e \in Emails, p \in OptPasswords : Login(r, e, p)
    \/ Tick

SpecAccounts == Init /\ [][NextAccounts]_vars

----------------------------------------------------------------------------
(* Steps, as seen from outside.  A request arrives in the first free slot  *)
(* (the clock stands still); a request answers when its pc becomes done.   *)
Arriving(r) == Accepts(r) /\ nops' = nops + 1 /\ now' = now

Finishing(r, route, pc) ==
    reqs[r].route = route /\ reqs[r].pc = pc /\ reqs'[r].pc = "done"

Answered(r, route, status) ==
    reqs[r].route = route /\ reqs[r].pc = "done" /\ reqs[r].status = status

Taken(email, username) ==
    \E i \in Ids : users[i].email = email \/ users[i].username = username

----------------------------------------------------------------------------
\* C1: in every reachable state of the user store, whatever the interleaving
\* of signups (findOne, later save), no two distinct users have the same
\* email and no two distinct users have the same username.
C1_UniqueEmailAndUsername ==
    \A i, j \in Ids :
        i # j => /\ users[i].email # users[j].email
                 /\ users[i].username # users[j].username

\* A signup that passed its findOne check and is about to save an email or
\* username that another signup stored in the meantime.
C1_Witness ==
    \E r \in Slots :
        /\ reqs[r].route = "signup" /\ reqs[r].pc = "save"
        /\ IsSome(reqs[r].loc.phonenumber)
        /\ Taken(reqs[r].loc.email, reqs[r].loc.username)
        /\ Len(users) >= 1

\* C2 (as claimed): a signup with all its fields, answering while a stored
\* user has its email or username, answers 409, stores nothing and issues no
\* token; answering while both are unused it answers 201, stores exactly one
\* user (Pending, no courses) and issues a token bound to the new id.
C2_ConflictOrCreated ==
    [][\A r \in Slots :
         /\ ( /\ Arriving(r) /\ reqs'[r].route = "signup"
              /\ IsSome(Val(reqs'[r].req).password)
              /\ IsSome(Val(reqs'[r].req).phonenumber)
              /\ Taken(Val(reqs'[r].req).email, Val(reqs'[r].req).username) )
            => /\ reqs'[r].pc = "done" /\ reqs'[r].status = 409
               /\ users' = users /\ tokens' = tokens
         /\ ( Finishing(r, "signup", "save") /\ IsSome(reqs[r].loc.phonenumber) )
            => IF Taken(reqs[r].loc.email, reqs[r].loc.username)
               THEN /\ reqs'[r].status = 409
                    /\ users' = users /\ tokens' = tokens
               ELSE /\ reqs'[r].status = 201
                    /\ Len(users') = Len(users) + 1
                    /\ SubSeq(users', 1, Len(users)) = users
                    /\ users'[Len(users')].email = reqs[r].loc.email
                    /\ users'[Len(users')].username = reqs[r].loc.username
                    /\ users'[Len(users')].applicationStatus = "Pending"
                    /\ users'[Len(users')].coursesApplied = <<>>
                    /\ reqs'[r].uid = Len(users')
                    /\ Val(reqs'[r].out).id = Len(users')
      ]_vars

\* C8 (as claimed): a login with the email of a stored user and the password
\* that user signed up with answers 200 with a token bound to that user's
\* id; with a stored email and any other password it answers 400; with an
\* email no user has it answers 400; no user record changes.
C8_LoginOutcome ==
    [][\A r \in Slots :
         ( /\ Arriving(r) /\ reqs'[r].route = "login"
           /\ IsSome(Val(reqs'[r].req).password) )
         => LET q == Val(reqs'[r].req)
                found == {i \in Ids : users[i].email = q.email}
            IN /\ users' = users
               /\ found = {} => reqs'[r].status = 400
               /\ \A i \in found :
                     IF Val(q.password) = plain[i]
                     THEN /\ reqs'[r].status = 200
                          /\ reqs'[r].uid = i
                          /\ Val(reqs'[r].out).id = i
                          /\ Val(reqs'[r].out) \in tokens'
                     ELSE reqs'[r].status = 400
      ]_vars

----------------------------------------------------------------------------
ProtectedRoutes == {"bio", "courses", "user", "apply", "apply-course"}

\* The request in slot r got past the middleware.
PassedAuth(rq) == rq.route \in ProtectedRoutes /\ rq.status \notin {401, 403}

\* C3: on every protected route a request without a header that starts with
\* "Bearer " is answered 403, one whose token was not issued by the server
\* or has expired is answered 401, in both cases the handler does not run
\* and nothing stored changes; the handler runs only for a token that
\* verifies, as the user the token was issued for.
C3_AuthGate ==
    [][\A r \in Slots :
         ( Arriving(r) /\ reqs'[r].route \in ProtectedRoutes )
         => LET h == Val(reqs'[r].req).hdr
                wellFormed == /\ h # None
                              /\ Val(h).scheme = "Bearer"
                              /\ Len(Val(h).rest) >= 1
                genuine == /\ wellFormed
                           /\ Val(h).rest[1] \in tokens
                           /\ now < Val(h).rest[1].exp
                rejected == /\ reqs'[r].pc = "done" /\ reqs'[r].uid = 0
                            /\ users' = users /\ uploads' = uploads
                            /\ tokens' = tokens
            IN /\ ~wellFormed => (rejected /\ reqs'[r].status = 403)
               /\ (wellFormed /\ ~genuine) => (rejected /\ reqs'[r].status = 401)
               /\ genuine => /\ reqs'[r].status \notin {401, 403}
                             /\ reqs'[r].uid = Val(h).rest[1].id
                             /\ reqs'[r].uid \in Ids
      ]_vars

\* One request is in its handler on a token that has since expired, and a
\* second request with that token has been answered 401.
C3_Witness ==
    \E r, q \in Slots :
        /\ reqs[r].route \in ProtectedRoutes /\ reqs[r].pc \in {"save", "find"}
        /\ Answered(q, reqs[q].route, 401) /\ reqs[q].route \in ProtectedRoutes
        /\ Val(reqs[q].req).hdr = Val(reqs[r].req).hdr
        /\ Val(Val(reqs[q].req).hdr).rest[1] \in tokens

----------------------------------------------------------------------------
\* C4: course discovery, on both routes, for a user whose specialization is
\* set, answers with exactly the catalog courses whose specializationRequired
\* equals the user's specialization and whose minimumMarks is at most the
\* user's marks12th; both routes give the same set for the same bio data;
\* the query changes no stored record.
C4_Discovery ==
    /\ [](\A r, q \in Slots :
            ( /\ reqs[r].route \in DiscoveryRoutes /\ reqs[r].pc = "done"
              /\ reqs[r].status = 200
              /\ reqs[q].route \in DiscoveryRoutes /\ reqs[q].pc = "done"
              /\ reqs[q].status = 200
              /\ Val(reqs[r].out).bioData = Val(reqs[q].out).bioData )
            => Val(reqs[r].out).availableCourses
                   = Val(reqs[q].out).availableCourses)
    /\ [][\A r \in Slots :
            /\ ( /\ Arriving(r) /\ reqs'[r].route \in DiscoveryRoutes
                 /\ PassedAuth(reqs'[r]) )
               => /\ users' = users
                  /\ IF IsSome(users[reqs'[r].uid].bioData.specialization)
                     THEN /\ reqs'[r].pc = "find"
                          /\ reqs'[r].loc.bioData = users[reqs'[r].uid].bioData
                     ELSE reqs'[r].pc = "done" /\ reqs'[r].status = 400
            /\ \A route \in DiscoveryRoutes :
                 Finishing(r, route, "find")
                 => LET b == reqs[r].loc.bioData
                    IN /\ users' = users
                       /\ reqs'[r].status = 200
                       /\ Val(reqs'[r].out).bioData = b
                       /\ Val(reqs'[r].out).availableCourses =
                            {c \in Courses :
                               /\ c.specializationRequired = Val(b.specialization)
                               /\ c.minimumMarks <= Val(b.marks12th)}
         ]_vars

\* Both routes have answered for the same bio data, with a course whose
\* minimum equals the user's marks included and the rest left out.
C4_Witness ==
    \E r, q \in Slots :
        /\ Answered(r, "courses", 200) /\ Answered(q, "user", 200)
        /\ Val(reqs[r].out).bioData = Val(reqs[q].out).bioData
        /\ \E c \in Val(reqs[r].out).availableCourses :
              c.minimumMarks = Val(Val(reqs[r].out).bioData.marks12th)
        /\ Val(reqs[r].out).availableCourses # Courses

----------------------------------------------------------------------------
\* The entry of the stored array that a course identifier string denotes.
Denotes(s, o) ==
    /\ Len(s) = ObjectIdHexLen
    /\ \A i \in 1..Len(s) :
          \/ s[i] \in LowerDigits /\ o.oid[i] = s[i]
          \/ s[i] \in UpperDigits /\ o.oid[i] = ToLower(s[i])
    /\ Len(o.oid) = Len(s)

CastableString(s) ==
    Len(s) = ObjectIdHexLen /\ \A i \in 1..Len(s) : s[i] \in LowerDigits \cup UpperDigits

\* C5 (as claimed): an authenticated POST /apply-course whose courseId is
\* already in the user's coursesApplied (as after a first successful call
\* with the same courseId) is answered 400 and changes nothing.
C5_DuplicateRefused ==
    [][\A r \in Slots :
         ( /\ Arriving(r) /\ reqs'[r].route = "apply-course"
           /\ PassedAuth(reqs'[r])
           /\ IsSome(Val(reqs'[r].req).courseId)
           /\ \E i \in 1..Len(users[reqs'[r].uid].coursesApplied) :
                 Denotes(Val(Val(reqs'[r].req).courseId),
                         users[reqs'[r].uid].coursesApplied[i]) )
         => /\ reqs'[r].pc = "done" /\ reqs'[r].status = 400
            /\ users' = users
      ]_vars

\* C6 (as claimed): every POST /apply/:courseId of an existing user that gets
\* past the middleware is answered 200.
C6_AlwaysSucceeds ==
    \A r \in Slots :
        (reqs[r].route = "apply" /\ reqs[r].pc = "done" /\ PassedAuth(reqs[r]))
        => reqs[r].status = 200

\* C6 (amended): an authenticated POST /apply/:courseId whose courseId
\* casts to an ObjectId (hex digits of the right length, in either case) is
\* answered 200 and appends that ObjectId to the stored coursesApplied, with
\* no duplicate check and no check that the course exists: the stored length
\* grows by exactly one and nothing else stored changes, except that
\* applicationStatus becomes Under Review.  A courseId that does not cast is
\* answered 500 and changes nothing.
C6_AppendsWhenCastable ==
    [][\A r \in Slots :
         /\ ( /\ Arriving(r) /\ reqs'[r].route = "apply"
              /\ PassedAuth(reqs'[r]) )
            => /\ users' = users
               /\ IF CastableString(Val(Val(reqs'[r].req).courseId))
                  THEN reqs'[r].pc = "save"
                  ELSE reqs'[r].pc = "done" /\ reqs'[r].status = 500
         /\ Finishing(r, "apply", "save")
            => LET id == reqs[r].uid
                   s == Val(Val(reqs[r].req).courseId)
                   before == users[id].coursesApplied
                   after == users'[id].coursesApplied
               IN /\ reqs'[r].status = 200
                  /\ Len(after) = Len(before) + 1
                  /\ SubSeq(after, 1, Len(before)) = before
                  /\ Denotes(s, after[Len(after)])
                  /\ users' = [users EXCEPT
                        ![id].coursesApplied = after,
                        ![id].applicationStatus = "Under Review"]
      ]_vars

\* Two calls with the same courseId have left it in coursesApplied twice,
\* and it is the id of no course.
C6_Witness ==
    \E i \in Ids, r \in Slots :
        /\ Answered(r, "apply", 200) /\ reqs[r].uid = i
        /\ Len(users[i].coursesApplied) = 2
        /\ users[i].coursesApplied[1] = users[i].coursesApplied[2]
        /\ \A c \in Courses : c.id # users[i].coursesApplied[1]

----------------------------------------------------------------------------
\* C7: an authenticated POST /bio in which name, age or specialization is
\* absent is answered 400 and leaves every stored user (bioData with its
\* certificates, coursesApplied, applicationStatus) exactly as it was.
C7_MissingFieldNoWrite ==
    [][\A r \in Slots :
         ( /\ Arriving(r) /\ reqs'[r].route = "bio" /\ PassedAuth(reqs'[r])
           /\ \/ Val(reqs'[r].req).name = None
              \/ Val(reqs'[r].req).age = None
              \/ Val(reqs'[r].req).specialization = None )
         => /\ reqs'[r].pc = "done" /\ reqs'[r].status = 400
            /\ users' = users
      ]_vars

\* A bio without specialization, sent with a file, was answered 400 for a
\* user who keeps the bio data and certificates of an earlier submission.
C7_Witness ==
    \E r \in Slots :
        /\ Answered(r, "bio", 400)
        /\ Val(reqs[r].req).specialization = None
        /\ IsSome(users[reqs[r].uid].bioData.specialization)
        /\ Len(users[reqs[r].uid].bioData.certificates) = 1

----------------------------------------------------------------------------
\* Two POST /apply/:courseId of one user that both loaded the user before
\* either saved, both answered 200.
RacedApplies(r, q) ==
    /\ r # q
    /\ Answered(r, "apply", 200) /\ Answered(q, "apply", 200)
    /\ reqs[r].uid = reqs[q].uid
    /\ Len(Val(reqs[r].out).coursesApplied) = Len(Val(reqs[q].out).coursesApplied)

\* C9 (as claimed): when two application requests of one user race, the later
\* save overwrites the earlier append: the stored coursesApplied is the later
\* saver's copy, with one of the two appended identifiers only.
C9_LastWriteWins ==
    \A r, q \in Slots :
        RacedApplies(r, q)
        => Len(users[reqs[r].uid].coursesApplied)
               = Len(Val(reqs[r].out).coursesApplied)

\* C9 (amended): when two application requests of one user race and both
\* answer 200, the stored coursesApplied holds both appended identifiers,
\* after everything that was stored when they loaded the user: a save (of
\* /apply/:courseId or of /apply-course) sends only the element it pushed and
\* the store appends it to what is stored then, so no append is overwritten.
C9_BothAppendsKept ==
    /\ [](\A r, q \in Slots :
            RacedApplies(r, q)
            => LET stored == users[reqs[r].uid].coursesApplied
                   mine == Val(reqs[r].out).coursesApplied
                   theirs == Val(reqs[q].out).coursesApplied
                   n == Len(mine)
               IN /\ Len(stored) = n + 1
                  /\ SubSeq(stored, 1, n - 1) = SubSeq(mine, 1, n - 1)
                  /\ \/ stored[n] = mine[n] /\ stored[n + 1] = theirs[n]
                     \/ stored[n] = theirs[n] /\ stored[n + 1] = mine[n])
    /\ [][\A r \in Slots, route \in {"apply", "apply-course"} :
            Finishing(r, route, "save")
            => LET before == users[reqs[r].uid].coursesApplied
                   after == users'[reqs[r].uid].coursesApplied
               IN /\ reqs'[r].status = 200
                  /\ after = before \o <<reqs[r].loc.pushed>>
         ]_vars

\* Two raced applications for different courses, both answered 200.
C9_Witness ==
    \E r, q \in Slots :
        /\ RacedApplies(r, q)
        /\ Val(reqs[r].out).coursesApplied # Val(reqs[q].out).coursesApplied

----------------------------------------------------------------------------
\* C10: every user's applicationStatus is Pending or Under Review, and it is
\* Under Review exactly when the user has completed a POST /apply/:courseId;
\* no step takes it back to Pending, and /apply-course leaves it alone even
\* when it appends a course.
C10_StatusFollowsApply ==
    /\ [](\A i \in Ids :
            /\ users[i].applicationStatus \in {"Pending", "Under Review"}
            /\ users[i].applicationStatus = "Under Review" <=> i \in reviewed)
    /\ [][\A i \in Ids :
            /\ users[i].applicationStatus = "Under Review"
                  => users'[i].applicationStatus = "Under Review"
            /\ users'[i].applicationStatus # users[i].applicationStatus
                  => \E r \in Slots : Finishing(r, "apply", "save") /\ reqs[r].uid = i
         ]_vars

\* One user is Under Review after /apply/:courseId while another, who got a
\* course appended by /apply-course, is still Pending.
C10_Witness ==
    \E i, j \in Ids :
        /\ users[i].applicationStatus = "Under Review" /\ i \in reviewed
        /\ users[j].applicationStatus = "Pending"
        /\ Len(users[j].coursesApplied) > 0

====
